---- MODULE Spec2Model ----
(***************************************************************************)
(* Model of cabels/saturday: the orchestrator (main), the Hue lighting     *)
(* client (hue.Client.SetState) and the Spotify OAuth session code         *)
(* (spotify.Client.AuthCode, RefreshAccessToken, SaveToken, LoadToken).    *)
(*                                                                         *)
(* Strings are sequences of one-character strings.  A JSON document is a   *)
(* record [wf, members]: wf = FALSE is a text that is not a JSON object,   *)
(* members is the sequence of the object's members, each with the raw      *)
(* (escaped) text of its value as it stands in the document.               *)
(***************************************************************************)
EXTENDS Integers, Sequences, FiniteSets, TLC

\* ------------------------------------------------------------------ bounds
MaxLen == 2          \* longest access_token drawn in the round-trip spec
MaxReq == 2          \* callback requests that may reach one listener
MaxSaves == 2        \* SaveToken calls in the round-trip spec

\* --------------------------------------------------------- program constants
maxRetries_four == 3 + 1
maxRetries == 3      \* hue.go:41
BackoffUnitMs == 500 \* hue.go:53,60
StatusOK == 200
StatusBadRequest == 400

\* ------------------------------------------------------------- JSON strings
Chars == {"a", "\"", "\\"}

Escape_raw(s) == s

RECURSIVE Escape(_)
\* encoding/json string encoding: quote and backslash get a backslash prefix
Escape(s) ==
  IF s = <<>> THEN <<>>
  ELSE (IF Head(s) \in {"\"", "\\"} THEN <<"\\", Head(s)>> ELSE <<Head(s)>>)
       \o Escape(Tail(s))

RECURSIVE Unescape(_)
\* encoding/json string decoding of the raw text between the quotes
Unescape(r) ==
  IF r = <<>> THEN <<>>
  ELSE IF Head(r) = "\\" /\ Len(r) >= 2
       THEN <<r[2]>> \o Unescape(SubSeq(r, 3, Len(r)))
       ELSE <<Head(r)>> \o Unescape(Tail(r))

DigitChar == <<"0", "1", "2", "3", "4", "5", "6", "7", "8", "9">>

RECURSIVE FormatInt(_)
\* decimal text of a non-negative int
FormatInt(n) ==
  IF n < 10 THEN <<DigitChar[n + 1]>>
  ELSE FormatInt(n \div 10) \o <<DigitChar[(n % 10) + 1]>>

RECURSIVE ParseInt(_)
\* value of a decimal text
ParseInt(r) ==
  IF r = <<>> THEN 0
  ELSE ParseInt(SubSeq(r, 1, Len(r) - 1)) * 10
       + ((CHOOSE i \in 1..10 : DigitChar[i] = r[Len(r)]) - 1)

\* -------------------------------------------------------------------- Token
\* spotify.go:26-32
ZeroToken ==
  [access_token |-> <<>>, refresh_token |-> <<>>, expires_in |-> 0,
   token_type |-> <<>>, scope |-> <<>>]

StringFields == {"access_token", "refresh_token", "token_type", "scope"}

Member(k, kind, raw) == [key |-> k, kind |-> kind, raw |-> raw]

Garbage == [wf |-> FALSE, members |-> <<>>]

\* json.NewEncoder(f).Encode(token): every field, in declaration order
EncodeToken(t) ==
  [wf |-> TRUE,
   members |-> << Member("access_token", "string", Escape(t.access_token)),
                  Member("refresh_token", "string", Escape(t.refresh_token)),
                  Member("expires_in", "number", FormatInt(t.expires_in)),
                  Member("token_type", "string", Escape(t.token_type)),
                  Member("scope", "string", Escape(t.scope)) >>]

\* one object member applied to the Token being decoded
SetField(acc, m) ==
  IF m.key \in StringFields
  THEN IF m.kind = "string"
       THEN [token |-> [acc.token EXCEPT ![m.key] = Unescape(m.raw)], err |-> acc.err]
       ELSE [token |-> acc.token, err |-> TRUE]
  ELSE IF m.key = "expires_in"
  THEN IF m.kind = "number"
       THEN [token |-> [acc.token EXCEPT !.expires_in = ParseInt(m.raw)], err |-> acc.err]
       ELSE [token |-> acc.token, err |-> TRUE]
  ELSE acc

RECURSIVE DecodeMembers(_, _)
DecodeMembers(ms, acc) ==
  IF ms = <<>> THEN acc
  ELSE DecodeMembers(Tail(ms), SetField(acc, Head(ms)))

\* json.NewDecoder(r).Decode(&token) into a zero Token: members that name no
\* field are skipped, absent fields keep the zero value
DecodeToken(doc) ==
  IF ~doc.wf THEN [token |-> ZeroToken, err |-> TRUE]
  ELSE DecodeMembers(doc.members, [token |-> ZeroToken, err |-> FALSE])

\* ------------------------------------------------------------ token file
Absent == [exists |-> FALSE, doc |-> Garbage]

\* spotify.go:134-142.  outcome "createfail": os.Create fails, the file is
\* untouched; "writefail": the file was created (truncated) and the write
\* failed; "ok": the file holds the encoding of token.
SaveToken(f, t, outcome) ==
  CASE outcome = "createfail" -> [file |-> f, err |-> TRUE]
    [] outcome = "writefail"  -> [file |-> [exists |-> TRUE, doc |-> Garbage], err |-> TRUE]
    [] OTHER                  -> [file |-> [exists |-> TRUE, doc |-> EncodeToken(t)], err |-> FALSE]

\* spotify.go:144-157
LoadToken(f) ==
  IF ~f.exists THEN [token |-> ZeroToken, err |-> TRUE]
  ELSE LET d == DecodeToken(f.doc)
       IN  IF d.err THEN [token |-> ZeroToken, err |-> TRUE]
           ELSE [token |-> d.token, err |-> FALSE]

\* -------------------------------------------------------- token endpoint
Nil == <<>>
Ptr(t) == <<t>>
Deref(p) == p[1]

Str(c) == <<c>>

\* a 200 answer of the token endpoint
BodyFull ==
  [wf |-> TRUE,
   members |-> << Member("access_token", "string", Str("n")),
                  Member("token_type", "string", Str("B")),
                  Member("expires_in", "number", <<"3", "6", "0", "0">>),
                  Member("refresh_token", "string", Str("s")),
                  Member("scope", "string", Str("p")) >>]

\* a 200 answer that leaves refresh_token out
BodyNoRefresh ==
  [wf |-> TRUE,
   members |-> << Member("access_token", "string", Str("n")),
                  Member("token_type", "string", Str("B")),
                  Member("expires_in", "number", <<"3", "6", "0", "0">>),
                  Member("scope", "string", Str("p")) >>]

\* a 200 answer with an empty refresh_token
BodyEmptyRefresh ==
  [wf |-> TRUE,
   members |-> << Member("access_token", "string", Str("n")),
                  Member("refresh_token", "string", <<>>),
                  Member("expires_in", "number", <<"3", "6", "0", "0">>) >>]

\* the provider's error response (a denial): a JSON object with error
\* members and none of the Token's
BodyError ==
  [wf |-> TRUE,
   members |-> << Member("error", "string", Str("g")),
                  Member("error_description", "string", Str("d")) >>]

\* what http.DefaultClient.Do can bring back from the token endpoint
\* (net: the transport failed; statusCode: resp.StatusCode, which neither
\* RefreshAccessToken nor exchangeCodeForToken reads)
NetFail == [net |-> TRUE, statusCode |-> 0, doc |-> Garbage]
Answer(statusCode, doc) == [net |-> FALSE, statusCode |-> statusCode, doc |-> doc]
TokenResponses ==
  { NetFail,
    Answer(StatusOK, Garbage),
    Answer(StatusOK, BodyFull),
    Answer(StatusOK, BodyNoRefresh),
    Answer(StatusOK, BodyEmptyRefresh),
    Answer(StatusBadRequest, BodyError) }

RefreshAccessToken_noBackfill(resp, refreshToken) ==
  IF resp.net THEN [token |-> Nil, err |-> TRUE]
  ELSE LET d == DecodeToken(resp.doc)
       IN  IF d.err THEN [token |-> Nil, err |-> TRUE]
           ELSE [token |-> Ptr(d.token), err |-> FALSE]

\* spotify.go:159-188
RefreshAccessToken(resp, refreshToken) ==
  IF resp.net THEN [token |-> Nil, err |-> TRUE]
  ELSE LET d == DecodeToken(resp.doc)
       IN  IF d.err THEN [token |-> Nil, err |-> TRUE]
           ELSE [token |-> Ptr(IF d.token.refresh_token = <<>>
                               THEN [d.token EXCEPT !.refresh_token = refreshToken]
                               ELSE d.token),
                 err |-> FALSE]

\* spotify.go:90-112
exchangeCodeForToken(resp) ==
  IF resp.net THEN [token |-> Nil, err |-> TRUE]
  ELSE LET d == DecodeToken(resp.doc)
       IN  [token |-> Ptr(d.token), err |-> d.err]

\* -------------------------------------------------------------------- state
State == "some-random-state"                 \* part_000:72
CallbackStates == {State, "other-state"}
Codes == {"c1", "c2"}
Requests == 1..MaxReq

PersistedTokens ==
  { [ZeroToken EXCEPT !.access_token = a, !.refresh_token = r] :
      a \in {<<>>, Str("o")}, r \in {<<>>, Str("r")} }

InitFiles ==
  {Absent, [exists |-> TRUE, doc |-> Garbage]}
  \cup {[exists |-> TRUE, doc |-> EncodeToken(t)] : t \in PersistedTokens}

VARIABLES
  pc,          \* main's position (inside SetState and AuthCode too)
  exitCode,    \* -1 while the process runs, then the os.Exit status
  song,        \* result.SongTitle != "" || result.Artist != ""
  token,       \* main's token variable (Nil or Ptr of a Token)
  err,         \* main's err variable after the last call
  file,        \* token.json
  calls,       \* history: the calls main has made, in order
  attempt,     \* SetState's loop variable
  lastErr,     \* SetState's lastErr != nil
  answers,     \* history: how each PUT attempt ended
  slept,       \* history: the time.Sleep durations of SetState, in ms
  server,      \* the redirect listener
  hpc,         \* position of the handler of each callback request
  req,         \* state and code query parameters of each request
  status,      \* HTTP status written to each request (0: none yet)
  delivered,   \* history: requests whose send on codeCh completed
  shutdowns,   \* requests whose handler started the shutdown goroutine
  code,        \* AuthCode's local code ("" before the receive)
  exchanged,   \* history: codes posted by exchangeCodeForToken
  exchResp,    \* history: the answer to the exchange POST
  refreshArg,  \* history: argument of RefreshAccessToken
  refreshResp, \* history: the answer to the refresh POST
  loadErr,     \* history: "none", "failed" or "ok" for LoadToken
  saves,       \* history: SaveToken calls (token, file before, err)
  used,        \* history: access tokens given to SearchTrack and PlayTrack
  rtSaved,     \* round trip: token of the last successful SaveToken
  rtLoaded,    \* round trip: what LoadToken returned
  rtSaves      \* round trip: number of SaveToken calls

mainVars == <<pc, exitCode, song, token, err, file, calls, loadErr, saves, used>>
hueVars == <<attempt, lastErr, answers, slept>>
authVars == <<server, hpc, req, status, delivered, shutdowns, code, exchanged, exchResp>>
refreshVars == <<refreshArg, refreshResp>>
rtVars == <<rtSaved, rtLoaded, rtSaves>>
vars == <<mainVars, hueVars, authVars, refreshVars, rtVars>>

NoReq == [state |-> "", code |-> ""]

InitMain ==
  /\ exitCode = -1 /\ song = FALSE /\ token = Nil /\ err = FALSE
  /\ calls = <<>> /\ loadErr = "none" /\ saves = <<>> /\ used = <<>>
  /\ attempt = 1 /\ lastErr = FALSE /\ answers = <<>> /\ slept = <<>>
  /\ refreshArg = Nil /\ refreshResp = Nil

InitCommon ==
  /\ server = "none"
  /\ hpc = [i \in Requests |-> "idle"]
  /\ req = [i \in Requests |-> NoReq]
  /\ status = [i \in Requests |-> 0]
  /\ delivered = <<>> /\ shutdowns = {} /\ code = ""
  /\ exchanged = <<>> /\ exchResp = Nil
  /\ rtSaved = Nil /\ rtLoaded = Nil /\ rtSaves = 0

Init ==
  /\ InitMain
  /\ InitCommon
  /\ pc = "loadCfg"
  /\ file \in InitFiles

Running == pc # "done"

AfterSetState_ignore(e) == "loadToken"
\* part_000:66-69: a SetState error ends the run
AfterSetState(e) == IF e THEN "done" ELSE "loadToken"

AfterLoad_alwaysAuth(e) == "auth"
\* part_000:74,85: no token goes to AuthCode, a loaded token to the refresh
AfterLoad(e) == IF e THEN "auth" ELSE "refresh"

AfterRefresh_fatal(e) == IF e THEN "done" ELSE "save"
\* part_000:87-95: a failed refresh goes to AuthCode, a refreshed token is saved
AfterRefresh(e) == IF e THEN "auth" ELSE "save"

AfterAuth_noSave(e) == IF e THEN "done" ELSE "search"
\* part_000:77-81 and 90-95: an AuthCode error ends the run, a token is saved
AfterAuth(e) == IF e THEN "done" ELSE "save"

StateMatches_any(st) == TRUE
\* spotify.go:49
StateMatches(st) == st = State

\* os.Exit(n)
Exit(n) == pc' = "done" /\ exitCode' = n

\* --------------------------------------------------------------- main
\* part_000:46-50
main_loadCfg ==
  /\ pc = "loadCfg"
  /\ \E ok \in BOOLEAN :
       /\ err' = ~ok
       /\ IF ok THEN pc' = "post" /\ exitCode' = exitCode ELSE Exit(1)
  /\ calls' = Append(calls, "loadCfg")
  /\ UNCHANGED <<song, token, file, loadErr, saves, used>>
  /\ UNCHANGED <<hueVars, authVars, refreshVars, rtVars>>

\* part_000:52-63
main_Post ==
  /\ pc = "post"
  /\ \E ok \in BOOLEAN, s \in BOOLEAN :
       /\ err' = ~ok
       /\ song' = (ok /\ s)
       /\ IF ok THEN pc' = "setState" /\ exitCode' = exitCode ELSE Exit(1)
  /\ calls' = Append(calls, "Post")
  /\ UNCHANGED <<token, file, loadErr, saves, used>>
  /\ UNCHANGED <<hueVars, authVars, refreshVars, rtVars>>

\* hue.go:43-63, one pass of the loop body: the PUT and what follows it.
\* (http.NewRequest at :44 gets a constant method and the URL that
\* url.JoinPath built at :33, so the break at :47 is not taken.)
SetState_attempt ==
  /\ pc = "setState"
  /\ attempt <= maxRetries
  /\ \E a \in {"neterr", "non200", "ok200"} :
       /\ answers' = Append(answers, a)
       /\ IF a = "ok200"
          THEN /\ pc' = "setStateRet"
               /\ err' = FALSE
               /\ UNCHANGED <<attempt, lastErr, slept>>
          ELSE /\ lastErr' = TRUE
               /\ slept' = Append(slept, attempt * BackoffUnitMs)
               /\ attempt' = attempt + 1
               /\ UNCHANGED <<pc, err>>
  /\ calls' = IF attempt = 1 THEN Append(calls, "SetState") ELSE calls
  /\ UNCHANGED <<exitCode, song, token, file, loadErr, saves, used>>
  /\ UNCHANGED <<authVars, refreshVars, rtVars>>

\* hue.go:43,65: the loop condition fails, return lastErr
SetState_return ==
  /\ pc = "setState"
  /\ attempt > maxRetries
  /\ err' = lastErr
  /\ pc' = "setStateRet"
  /\ UNCHANGED <<exitCode, song, token, file, calls, loadErr, saves, used>>
  /\ UNCHANGED <<hueVars, authVars, refreshVars, rtVars>>

\* part_000:66-72
main_afterSetState ==
  /\ pc = "setStateRet"
  /\ pc' = AfterSetState(err)
  /\ exitCode' = IF err THEN 1 ELSE exitCode
  /\ UNCHANGED <<song, token, err, file, calls, loadErr, saves, used>>
  /\ UNCHANGED <<hueVars, authVars, refreshVars, rtVars>>

\* part_000:73-75,85
main_LoadToken ==
  /\ pc = "loadToken"
  /\ LET r == LoadToken(file)
     IN  /\ err' = r.err
         /\ token' = IF r.err THEN Nil ELSE Ptr(r.token)
         /\ loadErr' = IF r.err THEN "failed" ELSE "ok"
         /\ pc' = AfterLoad(r.err)
  /\ calls' = Append(calls, "LoadToken")
  /\ UNCHANGED <<exitCode, song, file, saves, used>>
  /\ UNCHANGED <<hueVars, authVars, refreshVars, rtVars>>

\* part_000:86-88
main_Refresh ==
  /\ pc = "refresh"
  /\ \E resp \in TokenResponses :
       LET r == RefreshAccessToken(resp, Deref(token).refresh_token)
       IN  /\ refreshArg' = Ptr(Deref(token).refresh_token)
           /\ refreshResp' = Ptr(resp)
           /\ token' = r.token
           /\ err' = r.err
           /\ pc' = AfterRefresh(r.err)
  /\ calls' = Append(calls, "RefreshAccessToken")
  /\ UNCHANGED <<exitCode, song, file, loadErr, saves, used>>
  /\ UNCHANGED <<hueVars, authVars, rtVars>>

\* ------------------------------------------------------------- AuthCode
\* spotify.go:45-62: make the channel, register the handler, start the
\* listener goroutine
AuthCode_start ==
  /\ pc = "auth"
  /\ pc' = "openBrowser"
  /\ server' = "starting"
  /\ calls' = Append(calls, "AuthCode")
  /\ UNCHANGED <<exitCode, song, token, err, file, loadErr, saves, used>>
  /\ UNCHANGED <<hpc, req, status, delivered, shutdowns, code, exchanged, exchResp>>
  /\ UNCHANGED <<hueVars, refreshVars, rtVars>>

\* spotify.go:62-68: the listener goroutine binds, or returns silently
Listen ==
  /\ Running
  /\ server = "starting"
  /\ \E ok \in BOOLEAN : server' = IF ok THEN "serving" ELSE "bindfail"
  /\ UNCHANGED <<hpc, req, status, delivered, shutdowns, code, exchanged, exchResp>>
  /\ UNCHANGED <<mainVars, hueVars, refreshVars, rtVars>>

\* spotify.go:70-73
AuthCode_openBrowser ==
  /\ pc = "openBrowser"
  /\ pc' = "wait"
  /\ UNCHANGED <<exitCode, song, token, err, file, calls, loadErr, saves, used>>
  /\ UNCHANGED <<hueVars, authVars, refreshVars, rtVars>>

Callback_rejectStops(i) ==
  /\ Running
  /\ server = "serving"
  /\ hpc[i] = "idle"
  /\ \E st \in CallbackStates, cd \in Codes :
       /\ req' = [req EXCEPT ![i] = [state |-> st, code |-> cd]]
       /\ IF ~StateMatches(st)
          THEN /\ status' = [status EXCEPT ![i] = StatusBadRequest]
               /\ hpc' = [hpc EXCEPT ![i] = "returned"]
               /\ server' = "closing"
          ELSE /\ status' = [status EXCEPT ![i] = StatusOK]
               /\ hpc' = [hpc EXCEPT ![i] = "send"]
               /\ server' = server
  /\ UNCHANGED <<delivered, shutdowns, code, exchanged, exchResp>>
  /\ UNCHANGED <<mainVars, hueVars, refreshVars, rtVars>>

\* spotify.go:48-54: a callback request reaches the listener; its handler
\* checks state and writes the response, then stands at the send on codeCh
Callback(i) ==
  /\ Running
  /\ server = "serving"
  /\ hpc[i] = "idle"
  /\ \E st \in CallbackStates, cd \in Codes :
       /\ req' = [req EXCEPT ![i] = [state |-> st, code |-> cd]]
       /\ IF ~StateMatches(st)
          THEN /\ status' = [status EXCEPT ![i] = StatusBadRequest]
               /\ hpc' = [hpc EXCEPT ![i] = "returned"]
          ELSE /\ status' = [status EXCEPT ![i] = StatusOK]
               /\ hpc' = [hpc EXCEPT ![i] = "send"]
  /\ UNCHANGED <<server, delivered, shutdowns, code, exchanged, exchResp>>
  /\ UNCHANGED <<mainVars, hueVars, refreshVars, rtVars>>

Handoff_timeout(i) ==
  /\ pc = "wait"
  /\ hpc[i] \in {"idle", "send"}
  /\ pc' = "exchange"
  /\ UNCHANGED <<exitCode, song, token, err, file, calls, loadErr, saves, used>>
  /\ UNCHANGED <<hueVars, authVars, refreshVars, rtVars>>

Handoff_again(i) ==
  /\ pc \in {"wait", "exchange"}
  /\ hpc[i] = "send"
  /\ code' = req[i].code
  /\ delivered' = Append(delivered, i)
  /\ hpc' = [hpc EXCEPT ![i] = "sent"]
  /\ pc' = "exchange"
  /\ UNCHANGED <<exitCode, song, token, err, file, calls, loadErr, saves, used>>
  /\ UNCHANGED <<server, req, status, shutdowns, exchanged, exchResp>>
  /\ UNCHANGED <<hueVars, refreshVars, rtVars>>

\* spotify.go:55 and :74: the send of one handler meets main's receive
Handoff(i) ==
  /\ pc = "wait"
  /\ hpc[i] = "send"
  /\ code' = req[i].code
  /\ delivered' = Append(delivered, i)
  /\ hpc' = [hpc EXCEPT ![i] = "sent"]
  /\ pc' = "exchange"
  /\ UNCHANGED <<exitCode, song, token, err, file, calls, loadErr, saves, used>>
  /\ UNCHANGED <<server, req, status, shutdowns, exchanged, exchResp>>
  /\ UNCHANGED <<hueVars, refreshVars, rtVars>>

\* spotify.go:56-60: past the send, the handler starts the shutdown
\* goroutine and returns
Handler_goShutdown(i) ==
  /\ Running
  /\ hpc[i] = "sent"
  /\ hpc' = [hpc EXCEPT ![i] = "returned"]
  /\ shutdowns' = shutdowns \cup {i}
  /\ UNCHANGED <<server, req, status, delivered, code, exchanged, exchResp>>
  /\ UNCHANGED <<mainVars, hueVars, refreshVars, rtVars>>

\* spotify.go:57-58: after the sleep, server.Shutdown closes the listener
Shutdown_begin ==
  /\ Running
  /\ shutdowns # {}
  /\ server = "serving"
  /\ server' = "closing"
  /\ UNCHANGED <<hpc, req, status, delivered, shutdowns, code, exchanged, exchResp>>
  /\ UNCHANGED <<mainVars, hueVars, refreshVars, rtVars>>

Shutdown_complete_nowait ==
  /\ Running
  /\ server = "closing"
  /\ server' = "closed"
  /\ UNCHANGED <<hpc, req, status, delivered, shutdowns, code, exchanged, exchResp>>
  /\ UNCHANGED <<mainVars, hueVars, refreshVars, rtVars>>

\* spotify.go:58: server.Shutdown returns once no handler is in flight
Shutdown_complete ==
  /\ Running
  /\ server = "closing"
  /\ \A i \in Requests : hpc[i] \in {"idle", "returned"}
  /\ server' = "closed"
  /\ UNCHANGED <<hpc, req, status, delivered, shutdowns, code, exchanged, exchResp>>
  /\ UNCHANGED <<mainVars, hueVars, refreshVars, rtVars>>

\* spotify.go:76 with 90-112: the exchange POST, AuthCode returns
AuthCode_exchange ==
  /\ pc = "exchange"
  /\ \E resp \in TokenResponses :
       LET r == exchangeCodeForToken(resp)
       IN  /\ exchResp' = Ptr(resp)
           /\ token' = r.token
           /\ err' = r.err
  /\ exchanged' = Append(exchanged, code)
  /\ pc' = "authRet"
  /\ UNCHANGED <<exitCode, song, file, calls, loadErr, saves, used>>
  /\ UNCHANGED <<server, hpc, req, status, delivered, shutdowns, code>>
  /\ UNCHANGED <<hueVars, refreshVars, rtVars>>

\* part_000:77-80 and 90-93
main_afterAuth ==
  /\ pc = "authRet"
  /\ pc' = AfterAuth(err)
  /\ exitCode' = IF err THEN 1 ELSE exitCode
  /\ UNCHANGED <<song, token, err, file, calls, loadErr, saves, used>>
  /\ UNCHANGED <<hueVars, authVars, refreshVars, rtVars>>

AfterSave_fatal(e) == IF e THEN "done" ELSE "search"
\* part_000:82-84 and 96-100: whatever SaveToken returned, main goes on
AfterSave(e) == "search"

\* part_000:81-84 and 95-98: a failed save is only logged
main_SaveToken ==
  /\ pc = "save"
  /\ \E outcome \in {"ok", "createfail", "writefail"} :
       LET r == SaveToken(file, Deref(token), outcome)
       IN  /\ file' = r.file
           /\ err' = r.err
           /\ saves' = Append(saves, [token |-> Deref(token), err |-> r.err])
           /\ pc' = AfterSave(r.err)
  /\ calls' = Append(calls, "SaveToken")
  /\ UNCHANGED <<exitCode, song, token, loadErr, used>>
  /\ UNCHANGED <<hueVars, authVars, refreshVars, rtVars>>

\* part_000:100-114,123
main_SearchTrack ==
  /\ pc = "search"
  /\ IF ~song
     THEN Exit(0) /\ UNCHANGED <<err, calls, used>>
     ELSE /\ calls' = Append(calls, "SearchTrack")
          /\ used' = Append(used, Deref(token).access_token)
          /\ \E ok \in BOOLEAN :
               /\ err' = ~ok
               /\ IF ok THEN pc' = "play" /\ exitCode' = exitCode ELSE Exit(1)
  /\ UNCHANGED <<song, token, file, loadErr, saves>>
  /\ UNCHANGED <<hueVars, authVars, refreshVars, rtVars>>

\* part_000:115-123
main_PlayTrack ==
  /\ pc = "play"
  /\ calls' = Append(calls, "PlayTrack")
  /\ used' = Append(used, Deref(token).access_token)
  /\ \E ok \in BOOLEAN : err' = ~ok /\ Exit(IF ok THEN 0 ELSE 1)
  /\ UNCHANGED <<song, token, file, loadErr, saves>>
  /\ UNCHANGED <<hueVars, authVars, refreshVars, rtVars>>

Next ==
  \/ main_loadCfg
  \/ main_Post
  \/ SetState_attempt
  \/ SetState_return
  \/ main_afterSetState
  \/ main_LoadToken
  \/ main_Refresh
  \/ AuthCode_start
  \/ Listen
  \/ AuthCode_openBrowser
  \/ \E i \in Requests : Callback(i)
  \/ \E i \in Requests : Handoff(i)
  \/ \E i \in Requests : Handler_goShutdown(i)
  \/ Shutdown_begin
  \/ Shutdown_complete
  \/ AuthCode_exchange
  \/ main_afterAuth
  \/ main_SaveToken
  \/ main_SearchTrack
  \/ main_PlayTrack

Spec == Init /\ [][Next]_vars

\* ------------------------------------------------- SaveToken / LoadToken
\* The two file functions on their own: any sequence of up to MaxSaves
\* SaveToken calls on one file, each followed or not by a LoadToken.
Strings(n) == UNION {[1..k -> Chars] : k \in 0..n}

TokensRT ==
  { [access_token |-> a, refresh_token |-> r, expires_in |-> e,
     token_type |-> ty, scope |-> sc] :
      a \in Strings(MaxLen),
      r \in {<<>>, Str("\""), Str("r")},
      e \in {0, 105, 3600},
      ty \in {<<>>, Str("B")},
      sc \in {<<>>, <<"\\", "s">>} }

InitRT ==
  /\ InitMain
  /\ InitCommon
  /\ pc = "rt"
  /\ file = Absent

\* spotify.go:134-142
RT_SaveToken ==
  /\ pc = "rt"
  /\ rtSaves < MaxSaves
  /\ \E t \in TokensRT, outcome \in {"ok", "createfail", "writefail"} :
       LET r == SaveToken(file, t, outcome)
       IN  /\ file' = r.file
           /\ rtSaved' = CASE outcome = "ok" -> Ptr(t)
                           [] outcome = "writefail" -> Nil
                           [] OTHER -> rtSaved
  /\ rtSaves' = rtSaves + 1
  /\ rtLoaded' = Nil
  /\ UNCHANGED <<pc, exitCode, song, token, err, calls, loadErr, saves, used>>
  /\ UNCHANGED <<hueVars, authVars, refreshVars>>

\* spotify.go:144-157
RT_LoadToken ==
  /\ pc = "rt"
  /\ rtLoaded = Nil
  /\ rtLoaded' = Ptr(LoadToken(file))
  /\ UNCHANGED <<rtSaved, rtSaves>>
  /\ UNCHANGED <<mainVars, hueVars, authVars, refreshVars>>

NextRT ==
  \/ RT_SaveToken
  \/ RT_LoadToken

SpecRT == InitRT /\ [][NextRT]_vars

\* ------------------------------------------------ one AuthCode attempt
\* main standing at the AuthCode call of part_000:76 (no token file) or of
\* part_000:89 (refresh failed), after a first PUT answered 200.
AtAuthCommon ==
  /\ pc = "auth" /\ exitCode = -1 /\ token = Nil /\ err = TRUE
  /\ saves = <<>> /\ used = <<>>
  /\ attempt = 1 /\ lastErr = FALSE /\ answers = <<"ok200">> /\ slept = <<>>

AtAuthNoToken ==
  /\ AtAuthCommon
  /\ song = TRUE
  /\ file = Absent
  /\ loadErr = "failed"
  /\ calls = <<"loadCfg", "Post", "SetState", "LoadToken">>
  /\ refreshArg = Nil /\ refreshResp = Nil

AtAuthRefreshFailed ==
  /\ AtAuthCommon
  /\ song = FALSE
  /\ file = [exists |-> TRUE,
             doc |-> EncodeToken([ZeroToken EXCEPT !.access_token = Str("o"),
                                                   !.refresh_token = Str("r")])]
  /\ loadErr = "ok"
  /\ calls = <<"loadCfg", "Post", "SetState", "LoadToken", "RefreshAccessToken">>
  /\ refreshArg = Ptr(Str("r")) /\ refreshResp = Ptr(NetFail)

InitAuth ==
  /\ InitCommon
  /\ AtAuthNoToken \/ AtAuthRefreshFailed

NextAuth ==
  \/ AuthCode_start
  \/ Listen
  \/ AuthCode_openBrowser
  \/ \E i \in Requests : Callback(i)
  \/ \E i \in Requests : Handoff(i)
  \/ \E i \in Requests : Handler_goShutdown(i)
  \/ Shutdown_begin
  \/ Shutdown_complete
  \/ AuthCode_exchange
  \/ main_afterAuth
  \/ main_SaveToken
  \/ main_SearchTrack
  \/ main_PlayTrack

\* The Go scheduler runs every runnable goroutine: main, the listener
\* goroutine, the handlers past their send and the shutdown goroutine.
\* Nothing obliges a callback request to arrive.
FairAuth ==
  /\ WF_vars(AuthCode_start)
  /\ WF_vars(Listen)
  /\ WF_vars(AuthCode_openBrowser)
  /\ WF_vars(\E i \in Requests : Handoff(i))
  /\ WF_vars(\E i \in Requests : Handler_goShutdown(i))
  /\ WF_vars(Shutdown_begin)
  /\ WF_vars(Shutdown_complete)
  /\ WF_vars(AuthCode_exchange)
  /\ WF_vars(main_afterAuth)
  /\ WF_vars(main_SaveToken)
  /\ WF_vars(main_SearchTrack)
  /\ WF_vars(main_PlayTrack)

SpecAuth == InitAuth /\ [][NextAuth]_vars /\ FairAuth

\* ==================================================================== claims
Called(name) == \E i \in DOMAIN calls : calls[i] = name
Range(q) == {q[i] : i \in DOMAIN q}

\* C1: on a run where LoadToken succeeded, every AuthCode call, and so every
\* listener, comes after a RefreshAccessToken call.
C1_RefreshBeforeAuth ==
  loadErr = "ok" =>
    /\ \A i \in DOMAIN calls :
         calls[i] = "AuthCode" =>
           \E j \in 1..(i - 1) : calls[j] = "RefreshAccessToken"
    /\ server # "none" => Called("RefreshAccessToken")

C1_Witness ==
  /\ loadErr = "ok"
  /\ refreshArg = Ptr(Str("r"))
  /\ Called("AuthCode")
  /\ server = "serving"

\* C2 (as claimed): once the refresh POST was answered with the provider's
\* error response, main goes to AuthCode, and after that AuthCode it saves
\* the token AuthCode returned.
RefreshDenied ==
  /\ refreshResp # Nil
  /\ Deref(refreshResp).statusCode = StatusBadRequest

C2_DeniedRefreshFallsBack ==
  RefreshDenied =>
    /\ pc = "auth" \/ Called("AuthCode")
    /\ pc \in {"search", "play"} =>
         /\ saves # <<>>
         /\ exchResp # Nil
         /\ Ptr(saves[Len(saves)].token) = exchangeCodeForToken(Deref(exchResp)).token

\* C3: the receive of AuthCode happens at most once, it takes the code of a
\* request with matching state, requests that come later change neither the
\* code nor what is posted to the token endpoint, and a handler that stands
\* at the send leads to the wait being resolved.
C3_Inv ==
  /\ Len(delivered) <= 1
  /\ Len(exchanged) <= 1
  /\ (code # "") <=> (delivered # <<>>)
  /\ delivered # <<>> =>
       /\ req[delivered[1]].state = State
       /\ code = req[delivered[1]].code
  /\ exchanged # <<>> =>
       /\ delivered # <<>>
       /\ exchanged[1] = req[delivered[1]].code

C3_ResolvesOnce ==
  /\ []C3_Inv
  /\ (\E i \in Requests : hpc[i] = "send") ~> (code # "")

C3_Witness ==
  /\ code = "c1"
  /\ exchanged = <<"c1">>
  /\ \E i \in Requests : hpc[i] = "send" /\ req[i].code = "c2"

\* C4: a request whose state differs from State is answered 400, its handler
\* returns without sending on codeCh and without starting a shutdown; as long
\* as only such requests have come, the wait is unresolved, nothing was
\* exchanged and the listener keeps serving.
C4_MismatchRejected ==
  /\ \A i \in Requests :
       (req[i] # NoReq /\ req[i].state # State) =>
         /\ status[i] = StatusBadRequest
         /\ hpc[i] = "returned"
         /\ i \notin Range(delivered)
         /\ i \notin shutdowns
  /\ (\A i \in Requests : req[i] = NoReq \/ req[i].state # State) =>
       /\ code = "" /\ delivered = <<>> /\ exchanged = <<>> /\ shutdowns = {}
       /\ server \notin {"closing", "closed"}
       /\ Called("AuthCode") => pc \in {"openBrowser", "wait"}

C4_Witness ==
  /\ pc = "wait"
  /\ \A i \in Requests : req[i] # NoReq /\ req[i].state # State

\* C5: the token RefreshAccessToken returns carries the input refresh token
\* when the decoded response has none or an empty one, the response's own
\* otherwise, and is empty only if the input was.
RefreshReturned ==
  /\ refreshResp # Nil
  /\ pc = "save"
  /\ ~Called("AuthCode")

C5_RefreshBackfill ==
  RefreshReturned =>
    LET doc == Deref(refreshResp).doc
        r == Deref(refreshArg)
        got == Deref(token).refresh_token
    IN  /\ doc \in {BodyNoRefresh, BodyEmptyRefresh, BodyError} => got = r
        /\ doc = BodyFull => got = Str("s")
        /\ r # <<>> => got # <<>>

C5_Witness ==
  /\ RefreshReturned
  /\ Deref(refreshResp).doc = BodyNoRefresh
  /\ refreshArg = Ptr(Str("r"))
  /\ Deref(token).refresh_token = Str("r")

\* C6: when LoadToken failed, RefreshAccessToken is never called, the call
\* after LoadToken is AuthCode, and once AuthCode returned a token, SaveToken
\* was called once with it and SearchTrack and PlayTrack get its access token.
C6_NoTokenSkipsRefresh ==
  loadErr = "failed" =>
    /\ ~Called("RefreshAccessToken")
    /\ \A i \in DOMAIN calls :
         (calls[i] = "LoadToken" /\ i < Len(calls)) => calls[i + 1] = "AuthCode"
    /\ (pc \in {"search", "play"} \/ used # <<>>) =>
         /\ Len(saves) = 1
         /\ saves[1].token = Deref(token)
         /\ Ptr(Deref(token)) = exchangeCodeForToken(Deref(exchResp)).token
         /\ \A k \in DOMAIN used : used[k] = Deref(token).access_token

C6_Witness ==
  /\ loadErr = "failed"
  /\ pc = "play"
  /\ Len(saves) = 1
  /\ used = <<Str("n")>>

\* C7: LoadToken after a successful SaveToken, with no write in between,
\* succeeds and returns the five fields of the token last saved.
C7_RoundTrip ==
  (rtLoaded # Nil /\ rtSaved # Nil) =>
    /\ ~Deref(rtLoaded).err
    /\ Deref(rtLoaded).token = Deref(rtSaved)

C7_Witness ==
  /\ rtSaves = 2
  /\ rtLoaded # Nil /\ rtSaved # Nil
  /\ Deref(rtSaved).access_token = <<"\\", "\"">>
  /\ Deref(rtSaved).expires_in = 105
  /\ Deref(rtLoaded).token = Deref(rtSaved)

\* C8: SetState makes at most 3 attempts, a 200 answer is the last attempt
\* and yields success; without a 200 it returns an error after exactly 3
\* attempts and main exits 1 having called nothing of the token, search or
\* playback code.
NoOk == \A i \in DOMAIN answers : answers[i] # "ok200"

C8_SetStateBounded ==
  /\ Len(answers) <= 3
  /\ \A i \in DOMAIN answers :
       answers[i] = "ok200" => (i = Len(answers) /\ pc # "setState")
  /\ (pc = "setStateRet" /\ ~NoOk) => ~err
  /\ (pc = "setStateRet" /\ NoOk) => (err /\ Len(answers) = 3)
  /\ (pc \notin {"loadCfg", "post", "setState", "setStateRet"} /\ answers # <<>> /\ NoOk) =>
       /\ pc = "done" /\ exitCode = 1
       /\ Len(answers) = 3
       /\ \A n \in {"LoadToken", "RefreshAccessToken", "AuthCode", "SaveToken",
                    "SearchTrack", "PlayTrack"} : ~Called(n)
       /\ server = "none"

C8_Witness ==
  /\ pc = "done" /\ exitCode = 1
  /\ answers = <<"non200", "non200", "non200">>

\* C9 (as claimed): when all 3 attempts fail, SetState has slept 500 ms after
\* attempt 1 and 1000 ms after attempt 2, and not after attempt 3.
C9_NoSleepAfterLastAttempt ==
  (pc = "setStateRet" /\ err) => slept = <<500, 1000>>

\* C10 (as claimed): when the exchange POST hit a network failure, a body
\* that does not decode or the provider's error response, AuthCode returns
\* an error and main exits without saving, searching or playing.
ExchangeFailed ==
  /\ exchResp # Nil
  /\ \/ Deref(exchResp).net
     \/ ~Deref(exchResp).doc.wf
     \/ Deref(exchResp).statusCode # StatusOK

C10_ExchangeFailureIsError ==
  ExchangeFailed => (err /\ pc \in {"authRet", "done"} /\ saves = <<>>)

\* C11 (as claimed): when the listener cannot bind, AuthCode returns an
\* error and the run ends with exit status 1; main is not left at the
\* receive on codeCh.
C11_BindFailureIsFatal ==
  (server = "bindfail") ~> (pc = "done" /\ exitCode = 1)

\* C12 (as claimed): RefreshAccessToken is given the refresh token of a
\* loaded token only if that token has a non-empty access_token; a record
\* with an empty access_token goes to AuthCode like an absent file.
C12_LoadedTokenIsValid ==
  pc = "refresh" => Deref(token).access_token # <<>>

\* C13: a SaveToken that failed does not end the run: main goes on to the
\* search stage with the token it tried to save, gives that token's access
\* token to SearchTrack and PlayTrack, and when it has exited, it exited 0
\* with no song, or after calling SearchTrack.
SaveFailed == saves # <<>> /\ saves[Len(saves)].err

C13_SaveFailureNotFatal ==
  SaveFailed =>
    /\ Len(saves) = 1
    /\ pc \in {"search", "play", "done"}
    /\ token = Ptr(saves[1].token)
    /\ \A k \in DOMAIN used : used[k] = saves[1].token.access_token
    /\ pc = "done" => IF song THEN Called("SearchTrack") ELSE exitCode = 0

C13_Witness ==
  /\ SaveFailed
  /\ Called("AuthCode")
  /\ Called("RefreshAccessToken")
  /\ pc = "play"
  /\ used = <<Str("n")>>

\* C14: after a RefreshAccessToken that returned an error main calls
\* AuthCode; after an AuthCode that returned an error (on either path) main
\* exits 1 without SaveToken, SearchTrack or PlayTrack, and the token file,
\* which only a SaveToken step writes, is as it was.
RefreshFailed ==
  /\ refreshResp # Nil
  /\ Deref(refreshResp).net \/ ~Deref(refreshResp).doc.wf

AuthFailed ==
  /\ exchResp # Nil
  /\ Deref(exchResp).net \/ ~Deref(exchResp).doc.wf

C14_Inv ==
  /\ RefreshFailed => (pc = "auth" \/ Called("AuthCode"))
  /\ (AuthFailed /\ pc # "authRet") =>
       /\ pc = "done" /\ exitCode = 1
       /\ saves = <<>>
       /\ \A n \in {"SaveToken", "SearchTrack", "PlayTrack"} : ~Called(n)

C14_RefreshSoftAuthFatal ==
  /\ []C14_Inv
  /\ [][file' # file => pc = "save"]_vars

C14_Witness ==
  /\ RefreshFailed
  /\ AuthFailed
  /\ pc = "done" /\ exitCode = 1
  /\ file.exists /\ file.doc.wf

\* C15 (as claimed): once a callback has resolved the wait, the shutdown
\* goroutine runs server.Shutdown and server.Shutdown returns, whatever the
\* exchange answers and whatever requests come later.
C15_ListenerShutDown ==
  (delivered # <<>>) ~> (server = "closed")

\* C16: main calls its stages in the order loadCfg, Post, SetState, token
\* acquisition (LoadToken, RefreshAccessToken, AuthCode, SaveToken),
\* SearchTrack, PlayTrack; a stage is called only after the one before it
\* succeeded, SearchTrack only when a song was extracted; a failed fatal
\* stage is the last call and the exit status is 1; SearchTrack and
\* PlayTrack get the access token of the token that was acquired.
Rank(n) ==
  CASE n = "loadCfg" -> 1
    [] n = "Post" -> 2
    [] n = "SetState" -> 3
    [] n = "LoadToken" -> 4
    [] n = "RefreshAccessToken" -> 5
    [] n = "AuthCode" -> 6
    [] n = "SaveToken" -> 7
    [] n = "SearchTrack" -> 8
    [] n = "PlayTrack" -> 9

LastCall == calls[Len(calls)]

C16_StageOrder ==
  /\ \A i \in 1..(Len(calls) - 1) : Rank(calls[i]) < Rank(calls[i + 1])
  /\ Called("Post") => Called("loadCfg")
  /\ Called("SetState") => Called("Post")
  /\ Called("LoadToken") =>
       /\ Called("SetState")
       /\ answers[Len(answers)] = "ok200"
  /\ Called("SaveToken") => Called("LoadToken")
  /\ Called("SearchTrack") =>
       /\ song
       /\ Len(saves) = 1
       /\ token = Ptr(saves[1].token)
  /\ Called("PlayTrack") => Called("SearchTrack")
  /\ \A k \in DOMAIN used : used[k] = Deref(token).access_token
  /\ (calls # <<>> /\ err /\ LastCall \in {"loadCfg", "Post", "SearchTrack", "PlayTrack"}) =>
       (pc = "done" /\ exitCode = 1)
  /\ (calls # <<>> /\ err /\ LastCall = "SetState") =>
       (pc = "setStateRet" \/ (pc = "done" /\ exitCode = 1))
  /\ AuthFailed => (pc = "authRet" \/ (pc = "done" /\ exitCode = 1 /\ LastCall = "AuthCode"))
  /\ pc = "done" =>
       /\ exitCode \in {0, 1}
       /\ exitCode = 1 => err
       /\ exitCode = 0 =>
            /\ Called("SaveToken")
            /\ song => (Called("PlayTrack") /\ ~err)

C16_Witness ==
  /\ pc = "done" /\ exitCode = 0
  /\ calls = <<"loadCfg", "Post", "SetState", "LoadToken", "RefreshAccessToken",
               "AuthCode", "SaveToken", "SearchTrack", "PlayTrack">>
  /\ used = <<Str("n"), Str("n")>>

\* C17: what exchangeCodeForToken posts is the code of the one request with
\* matching state whose send was received; main leaves the receive only by
\* taking the code of a handler that stands at the send; and while no
\* request with matching state has come, AuthCode has not returned and
\* nothing was exchanged, saved, searched or played.
NoMatchingRequest == \A i \in Requests : req[i] = NoReq \/ req[i].state # State

C17_Inv ==
  /\ \A k \in DOMAIN exchanged :
       \E i \in Requests :
         /\ delivered = <<i>>
         /\ req[i].state = State
         /\ hpc[i] \in {"sent", "returned"}
         /\ exchanged[k] = req[i].code
  /\ (Called("AuthCode") /\ NoMatchingRequest) =>
       /\ pc \in {"openBrowser", "wait"}
       /\ exitCode = -1
       /\ LastCall = "AuthCode"
       /\ exchanged = <<>> /\ exchResp = Nil
       /\ saves = <<>> /\ used = <<>>

C17_ExchangeOnlyAfterCallback ==
  /\ []C17_Inv
  /\ [][pc = "wait" =>
          \/ pc' = "wait"
          \/ /\ pc' = "exchange"
             /\ \E i \in Requests :
                  hpc[i] = "send" /\ hpc'[i] = "sent" /\ code' = req[i].code]_vars

C17_Witness ==
  /\ exchanged = <<"c2">>
  /\ \E i \in Requests : req[i].state # State /\ req[i].code = "c1"

\* C18: a rejected callback changes nothing of the attempt but its own
\* request: main stays where it is, the listener keeps serving, nothing is
\* handed over; while no code was handed over the listener serves, so a
\* request with matching state can still come in; and once one stands at
\* its send after a rejection, AuthCode comes back from the exchange.
Rejected(i) == req[i] # NoReq /\ req[i].state # State

C18_Inv ==
  ((\E i \in Requests : Rejected(i)) /\ delivered = <<>>) =>
    /\ server = "serving"
    /\ pc \in {"openBrowser", "wait"}

C18_RejectionKeepsWaiting ==
  /\ []C18_Inv
  /\ [][\A i \in Requests :
          (hpc[i] = "idle" /\ hpc'[i] = "returned") =>
            /\ status'[i] = StatusBadRequest
            /\ UNCHANGED <<pc, server, code, delivered, shutdowns, exchanged>>
            /\ \A j \in Requests \ {i} : hpc'[j] = hpc[j]]_vars
  /\ ((\E i \in Requests : Rejected(i)) /\ (\E j \in Requests : hpc[j] = "send"))
       ~> (exchResp # Nil)

C18_Witness ==
  /\ \E i \in Requests : Rejected(i)
  /\ \E j \in Requests : delivered = <<j>>
  /\ exchResp # Nil
  /\ pc = "authRet"

\* C19: a handler that reaches the send on codeCh after the one receive has
\* happened has written its 200 response and stays at the send in every
\* later step: it does not return, it starts no shutdown goroutine, and
\* server.Shutdown does not return while it stands there.
LateSender(i) == hpc[i] = "send" /\ delivered # <<>>

C19_Inv ==
  \A i \in Requests :
    LateSender(i) =>
      /\ status[i] = StatusOK
      /\ i \notin shutdowns
      /\ i \notin Range(delivered)
      /\ server \in {"serving", "closing"}

C19_LateSenderBlocksForever ==
  /\ []C19_Inv
  /\ [][\A i \in Requests : LateSender(i) => hpc'[i] = "send"]_vars

C19_Witness ==
  /\ \E i \in Requests : LateSender(i)
  /\ server = "closing"
  /\ Running

\* C20 (as claimed): when main stands at the search stage, SaveToken was
\* called exactly once, with the token main holds, that token has a
\* non-empty access_token, and after a successful save the file holds its
\* encoding.
C20_SavedTokenIsUsable ==
  pc \in {"search", "play"} =>
    /\ Len(saves) = 1
    /\ saves[1].token = Deref(token)
    /\ Deref(token).access_token # <<>>
    /\ ~saves[1].err => file = [exists |-> TRUE, doc |-> EncodeToken(Deref(token))]

====
